---- MODULE Spec2Model ----
(***************************************************************************)
(* Model of data/data-process/src/standardized_to_cot_input.py: the        *)
(* conversion of standardized trajectories into CoT input records and      *)
(* image frames.                                                           *)
(*                                                                         *)
(* A Python str is a sequence of one-character strings; None is the        *)
(* one-element sequence <<"None">>, which no str equals because its        *)
(* element is not a single character.  Bytes are sequences of 0..255.      *)
(*                                                                         *)
(* The input directory is chosen in Init from four families: one file with *)
(* every content array up to MaxContent items; one file with one image     *)
(* observation of every payload up to MaxBody characters; one file with    *)
(* every shape of the document header; and up to MaxFiles files.  An       *)
(* exception is not caught anywhere in the program: it ends the run with   *)
(* pc = "raised".                                                          *)
(***************************************************************************)
EXTENDS Integers, Sequences, FiniteSets, TLC

\* ------------------------------------------------------------------------
\* Bounds of the model
\* ------------------------------------------------------------------------

\* longest content array of the single-file inputs that exercise the walk
MaxContent == 3

\* most files in the input directory of the multi-file inputs
MaxFiles == 2

\* longest payload body of the inputs that exercise the base64 normalizer
MaxBody == 5

\* ------------------------------------------------------------------------
\* Strings
\* ------------------------------------------------------------------------

None == <<"None">>

Range(s) == {s[k] : k \in DOMAIN s}

Upper ==
  << "A","B","C","D","E","F","G","H","I","J","K","L","M",
     "N","O","P","Q","R","S","T","U","V","W","X","Y","Z" >>

Lower ==
  << "a","b","c","d","e","f","g","h","i","j","k","l","m",
     "n","o","p","q","r","s","t","u","v","w","x","y","z" >>

Digit == << "0","1","2","3","4","5","6","7","8","9" >>

StartsWith(s, prefix) ==
  /\ Len(s) >= Len(prefix)
  /\ SubSeq(s, 1, Len(prefix)) = prefix

\* str.lower()
ToLower(s) ==
  [k \in DOMAIN s |->
     IF \E u \in DOMAIN Upper : Upper[u] = s[k]
       THEN Lower[CHOOSE u \in DOMAIN Upper : Upper[u] = s[k]]
       ELSE s[k]]

\* f"{n:04d}" for n >= 0
RECURSIVE DecimalDigits(_)
DecimalDigits(n) ==
  IF n < 10 THEN <<Digit[n + 1]>>
  ELSE DecimalDigits(n \div 10) \o <<Digit[(n % 10) + 1]>>

Format04d(n) ==
  LET d == DecimalDigits(n)
  IN  [k \in 1..(IF Len(d) < 4 THEN 4 - Len(d) ELSE 0) |-> "0"] \o d

\* re.sub(r"[^A-Za-z0-9._-]", "_", value)
SafeNameChars == Range(Upper) \cup Range(Lower) \cup Range(Digit) \cup {".", "_", "-"}

sanitize_name(value) ==
  [k \in DOMAIN value |-> IF value[k] \in SafeNameChars THEN value[k] ELSE "_"]

\* ------------------------------------------------------------------------
\* base64.b64decode(s, validate=False): binascii.a2b_base64, non-strict
\* ------------------------------------------------------------------------

Base64Table == Upper \o Lower \o Digit \o <<"+", "/">>

Base64Chars == Range(Base64Table)

Base64Value(ch) == (CHOOSE v \in DOMAIN Base64Table : Base64Table[v] = ch) - 1

RECURSIVE a2b_base64(_, _, _, _, _, _)
a2b_base64(s, pos, quad_pos, leftchar, pads, out) ==
  IF pos > Len(s)
    THEN IF quad_pos # 0
           THEN [ok |-> FALSE, bytes |-> <<>>]
           ELSE [ok |-> TRUE, bytes |-> out]
  ELSE IF s[pos] = "="
    THEN IF quad_pos >= 2 /\ quad_pos + pads + 1 >= 4
           THEN [ok |-> TRUE, bytes |-> out]
           ELSE a2b_base64(s, pos + 1, quad_pos, leftchar,
                           IF quad_pos >= 2 THEN pads + 1 ELSE pads, out)
  ELSE IF s[pos] \notin Base64Chars
    THEN a2b_base64(s, pos + 1, quad_pos, leftchar, pads, out)
  ELSE LET v == Base64Value(s[pos])
       IN  CASE quad_pos = 0 ->
                  a2b_base64(s, pos + 1, 1, v, 0, out)
             [] quad_pos = 1 ->
                  a2b_base64(s, pos + 1, 2, v % 16, 0,
                             Append(out, leftchar * 4 + (v \div 16)))
             [] quad_pos = 2 ->
                  a2b_base64(s, pos + 1, 3, v % 4, 0,
                             Append(out, leftchar * 16 + (v \div 4)))
             [] OTHER ->
                  a2b_base64(s, pos + 1, 0, 0, 0,
                             Append(out, leftchar * 64 + v))

b64decode(s) == a2b_base64(s, 1, 0, 0, 0, <<>>)

\* ------------------------------------------------------------------------
\* decode_base64_to_file
\* ------------------------------------------------------------------------

DataPrefix == <<"d", "a", "t", "a", ":">>

\* the mutation of the split that keeps the text after the last comma
SplitAfterLastComma(content) ==
  IF \E k \in DOMAIN content : content[k] = ","
    THEN LET last == CHOOSE k \in DOMAIN content :
                       /\ content[k] = ","
                       /\ \A j \in (k + 1)..Len(content) : content[j] # ","
         IN  [found |-> TRUE, rest |-> SubSeq(content, last + 1, Len(content))]
    ELSE [found |-> FALSE, rest |-> <<>>]

\* content.split(",", 1)[1]; found is FALSE when the IndexError is raised
SplitAfterFirstComma(content) ==
  IF \E k \in DOMAIN content : content[k] = ","
    THEN LET first == CHOOSE k \in DOMAIN content :
                        /\ content[k] = ","
                        /\ \A j \in 1..(k - 1) : content[j] # ","
         IN  [found |-> TRUE, rest |-> SubSeq(content, first + 1, Len(content))]
    ELSE [found |-> FALSE, rest |-> <<>>]

\* re.sub(r"[^A-Za-z0-9+/=]", "", content)
KeepBase64(ch) == ch \in Base64Chars \cup {"="}

Normalized(content) == SelectSeq(content, KeepBase64)

\* normalized.rstrip("=")
RECURSIVE RStripEquals(_)
RStripEquals(s) ==
  IF s # <<>> /\ s[Len(s)] = "="
    THEN RStripEquals(SubSeq(s, 1, Len(s) - 1))
    ELSE s

\* the mutation without the trimming loop
TrimNothing(core) == core

\* while core and (len(core) % 4 == 1): core = core[:-1]
RECURSIVE TrimCore(_)
TrimCore(core) ==
  IF core # <<>> /\ Len(core) % 4 = 1
    THEN TrimCore(SubSeq(core, 1, Len(core) - 1))
    ELSE core

Padding(core) ==
  LET remainder == Len(core) % 4
  IN  IF remainder # 0 THEN 4 - remainder ELSE 0

Max(a, b) == IF a >= b THEN a ELSE b

\* the mutation that always adds the computed padding to the observed one
SumEquals(trailing_equals, padding) == trailing_equals + padding

TotalEquals(trailing_equals, padding) == Max(trailing_equals, padding)

Equals(n) == [k \in 1..n |-> "="]

\* lines 68-79: the string handed to base64.b64decode
FinalString(content) ==
  LET normalized      == Normalized(content)
      core            == RStripEquals(normalized)
      trailing_equals == Len(normalized) - Len(core)
      trimmed         == TrimCore(core)
      total_equals    == TotalEquals(trailing_equals, Padding(trimmed))
  IN  trimmed \o Equals(total_equals)

\* The file system under images_dir, as far as the run touches it: the
\* directories made and the bytes of the files written, by relative path.
MkDir(fs, folder) == [fs EXCEPT !.dirs = @ \cup {folder}]

WriteFile(fs, path, bytes) ==
  [fs EXCEPT !.files =
     [p \in DOMAIN @ \cup {path} |-> IF p = path THEN bytes ELSE @[p]]]

\* decode_base64_to_file(content, images_root / rel_path): the exception
\* raised ("" when none), whether the file was opened for writing, the
\* file system left behind, and the argument of b64decode (None when it
\* was not called).  path.open("wb") creates
\* or truncates the file before b64decode is evaluated.
decode_base64_to_file(content, folder, path, fs) ==
  LET made     == MkDir(fs, folder)
      is_uri   == StartsWith(content, DataPrefix)
      split    == SplitAfterFirstComma(content)
      payload  == IF is_uri THEN split.rest ELSE content
      final    == FinalString(payload)
      decoded  == b64decode(final)
  IN  IF is_uri /\ ~split.found
        THEN [raised |-> "ValueError", opened |-> FALSE,
              fs |-> made, b64_arg |-> None]
      ELSE IF ~decoded.ok
        THEN [raised |-> "binascii.Error", opened |-> TRUE,
              fs |-> WriteFile(made, path, <<>>), b64_arg |-> final]
      ELSE [raised |-> "", opened |-> TRUE,
            fs |-> WriteFile(made, path, decoded.bytes), b64_arg |-> final]

\* ------------------------------------------------------------------------
\* actions_to_code
\* ------------------------------------------------------------------------

\* GUIActionType._value2member_map_ and ComputerActionType._value2member_map_
\* of src.schema.action: two disjoint vocabularies of action kinds
GUIActionTypes == {"click", "write"}

ComputerActionTypes == {"wait", "terminate"}

\* PyAutoGUIAction.to_command and ComputerAction.to_command: one line of text
PyAutoGUIToCommand(action_type, args) ==
  "pyautogui." \o action_type \o "(" \o args \o ")"

ComputerToCommand(action_type, args) ==
  "computer." \o action_type \o "(" \o args \o ")"

\* "\n".join(commands)
RECURSIVE JoinLines(_)
JoinLines(commands) ==
  IF commands = <<>> THEN ""
  ELSE IF Len(commands) = 1 THEN commands[1]
  ELSE commands[1] \o "\n" \o JoinLines(Tail(commands))

\* the mutation that passes over an unknown kind instead of raising
RECURSIVE CommandsSkippingUnknown(_, _)
CommandsSkippingUnknown(actions, commands) ==
  IF actions = <<>>
    THEN [raised |-> "", commands |-> commands]
  ELSE LET action == Head(actions)
       IN  IF action.action_type \in GUIActionTypes
             THEN CommandsSkippingUnknown(Tail(actions),
                    Append(commands, PyAutoGUIToCommand(action.action_type, action.args)))
           ELSE IF action.action_type \in ComputerActionTypes
             THEN CommandsSkippingUnknown(Tail(actions),
                    Append(commands, ComputerToCommand(action.action_type, action.args)))
           ELSE CommandsSkippingUnknown(Tail(actions), commands)

\* the for loop of actions_to_code, from the actions left and the commands
\* collected so far
RECURSIVE CommandsLoop(_, _)
CommandsLoop(actions, commands) ==
  IF actions = <<>>
    THEN [raised |-> "", commands |-> commands]
  ELSE LET action == Head(actions)
       IN  IF action.action_type \in GUIActionTypes
             THEN CommandsLoop(Tail(actions),
                    Append(commands, PyAutoGUIToCommand(action.action_type, action.args)))
           ELSE IF action.action_type \in ComputerActionTypes
             THEN CommandsLoop(Tail(actions),
                    Append(commands, ComputerToCommand(action.action_type, action.args)))
           ELSE [raised |-> "ValueError", commands |-> <<>>]

\* actions_to_code(actions): the exception raised ("" when none) and the
\* text returned (nothing is returned when it raises)
actions_to_code(actions) ==
  LET loop == CommandsLoop(actions, <<>>)
  IN  [raised |-> loop.raised,
       code   |-> IF loop.raised = "" THEN JoinLines(loop.commands) ELSE ""]

\* ------------------------------------------------------------------------
\* resolve_instruction
\* ------------------------------------------------------------------------

InstructionSources == {"user", "task"}

\* the mutation that keeps the last eligible text observation
RECURSIVE LastInstruction(_)
LastInstruction(content) ==
  IF content = <<>> THEN None
  ELSE LET item == content[Len(content)]
       IN  IF /\ item.is_dict
              /\ item.class_ = "text_observation"
              /\ item.source \in InstructionSources
             THEN item.content
             ELSE LastInstruction(SubSeq(content, 1, Len(content) - 1))

RECURSIVE resolve_instruction(_)
resolve_instruction(content) ==
  IF content = <<>> THEN None
  ELSE LET item == Head(content)
       IN  IF /\ item.is_dict
              /\ item.class_ = "text_observation"
              /\ item.source \in InstructionSources
             THEN item.content
             ELSE resolve_instruction(Tail(content))

\* ------------------------------------------------------------------------
\* Inputs: the standardized directory
\* ------------------------------------------------------------------------

\* content items, by the keys process_file reads
TextObservation(source, text) ==
  [is_dict |-> TRUE, class_ |-> "text_observation", source |-> source,
   content |-> text, has_guiactions |-> FALSE, guiactions |-> <<>>]

ImageObservation(payload) ==
  [is_dict |-> TRUE, class_ |-> "image_observation", source |-> "environment",
   content |-> payload, has_guiactions |-> FALSE, guiactions |-> <<>>]

ActionBatch(actions) ==
  [is_dict |-> TRUE, class_ |-> "", source |-> "agent",
   content |-> None, has_guiactions |-> TRUE, guiactions |-> actions]

NotADict ==
  [is_dict |-> FALSE, class_ |-> "", source |-> "",
   content |-> None, has_guiactions |-> FALSE, guiactions |-> <<>>]

Click == [action_type |-> "click", args |-> "x=1, y=2"]

Wait == [action_type |-> "wait", args |-> ""]

Unknown == [action_type |-> "does_not_exist", args |-> ""]

GoodPayload == <<"A", "A", "=", "=">>

\* cleaned and padded to "Q=Q=", which b64decode rejects
UndecodablePayload == <<"Q", "=", "Q">>

DataUriPrefix ==
  << "d","a","t","a",":","i","m","a","g","e","/","p","n","g",";",
     "b","a","s","e","6","4","," >>

WalkItems ==
  { TextObservation("user", <<"g", "o">>),
    TextObservation("task", <<"d", "o">>),
    TextObservation("agent", <<"h", "m">>),
    ImageObservation(GoodPayload),
    ImageObservation(UndecodablePayload),
    ImageObservation(DataPrefix),
    ActionBatch(<<>>),
    ActionBatch(<<Click>>),
    ActionBatch(<<Click, Wait>>),
    ActionBatch(<<Click, Unknown>>),
    NotADict }

Contents(items, n) == UNION {[1..k -> items] : k \in 0..n}

Document(example_id, task_id, type, content) ==
  [example_id |-> example_id, task_id |-> task_id, type |-> type,
   has_content |-> TRUE, content |-> content]

\* file names of the directory, in sorted order
Stems ==
  << <<"a", " ", "b">>, <<"a", "+", "b">>, <<"a", "_", "b">>,
     <<"b">>, <<"c">>, <<"d">> >>

File(n, data) == [stem |-> Stems[n], data |-> data]

RecordingId == <<"r", " ", "1">>

\* one file, every content array up to MaxContent items
WalkDirs ==
  { <<File(1, Document(RecordingId, None, None, c))>> :
      c \in Contents(WalkItems, MaxContent) }

\* one file holding one image, every payload: an optional data-URI head
\* and a body of up to MaxBody characters
PayloadHeads == {<<>>, DataPrefix, DataUriPrefix}

BodyChars == {"Q", "=", " ", ","}

Payloads ==
  { h \o b : h \in PayloadHeads, b \in Contents(BodyChars, MaxBody) }

NormalizerDirs ==
  { <<File(1, Document(RecordingId, None, None,
                       <<ImageObservation(p), ActionBatch(<<Click>>)>>))>> :
      p \in Payloads }

\* one file, every shape of the document's header
HeaderDirs ==
  { <<File(1, [example_id |-> e, task_id |-> t, type |-> ty,
               has_content |-> h,
               content |-> IF h THEN <<ImageObservation(GoodPayload),
                                       ActionBatch(<<Click>>)>>
                           ELSE <<>>])>> :
      e \in {None, <<>>, RecordingId},
      t \in {None, <<>>, <<"A","g","e","n","t","N","e","t">>, <<"t", "7">>},
      ty \in {None, <<"e", "2", "e">>},
      h \in BOOLEAN }

\* up to MaxFiles files
DriverContents ==
  { <<ImageObservation(GoodPayload), ActionBatch(<<Click>>)>>,
    <<TextObservation("user", <<"g", "o">>),
      TextObservation("task", <<"d", "o">>),
      ActionBatch(<<Click>>), ImageObservation(GoodPayload),
      ActionBatch(<<Click>>), ActionBatch(<<>>),
      ImageObservation(GoodPayload), ActionBatch(<<Wait>>)>>,
    <<ImageObservation(UndecodablePayload)>>,
    <<ActionBatch(<<Click>>)>> }

DriverDocuments ==
  { Document(e, None, None, c) :
      e \in {None, <<"a", " ", "b">>, <<"a", "_", "b">>},
      c \in DriverContents }

DriverDirs ==
  UNION { { [n \in 1..k |-> File(n, d[n])] : d \in [1..k -> DriverDocuments] } :
            k \in 0..MaxFiles }

Directories == WalkDirs \cup NormalizerDirs \cup HeaderDirs \cup DriverDirs

\* ------------------------------------------------------------------------
\* State
\* ------------------------------------------------------------------------

VARIABLES
  pc,                 \* where main is
  raised,             \* the exception that ended the run ("" when none)
  standardized_files, \* main: the sorted *.json files, each with its document
  file_idx,           \* main: position of the for loop over standardized_files
  record,             \* main: what process_file returned last
  records,            \* main: the records collected
  output_jsonl,       \* what the run wrote to args.output_jsonl
  fs,                 \* what the run made under args.images_dir
  content,            \* process_file: data.get("content", [])
  item_idx,           \* process_file: position of the for loop over content
  instruction,        \* process_file
  example_id,         \* process_file
  task_id,            \* process_file
  image_folder,       \* process_file
  image_counter,      \* process_file
  last_image_rel,     \* process_file
  trajectory,         \* process_file
  writes,             \* the paths opened for writing, in order
  b64_arg             \* what the last decode_base64_to_file gave b64decode

vars ==
  << pc, raised, standardized_files, file_idx, record, records, output_jsonl,
     fs, content, item_idx, instruction, example_id, task_id, image_folder,
     image_counter, last_image_rel, trajectory, writes, b64_arg >>

main_vars == << standardized_files, file_idx, record, records, output_jsonl >>

file_vars == << content, instruction, example_id, task_id, image_folder >>

NoRecord ==
  [is_none |-> TRUE, task_id |-> None, instruction |-> None, traj |-> <<>>,
   source_recording_id |-> None, raw_type |-> None, image_folder |-> None]

EmptyFs == [dirs |-> {}, files |-> <<>>]

Init ==
  /\ pc = "start"
  /\ raised = ""
  /\ standardized_files \in Directories
  /\ file_idx = 1
  /\ record = NoRecord
  /\ records = <<>>
  /\ output_jsonl = [written |-> FALSE, lines |-> <<>>]
  /\ fs = EmptyFs
  /\ content = <<>>
  /\ item_idx = 1
  /\ instruction = None
  /\ example_id = None
  /\ task_id = None
  /\ image_folder = None
  /\ image_counter = 0
  /\ last_image_rel = None
  /\ trajectory = <<>>
  /\ writes = <<>>
  /\ b64_arg = None

\* ------------------------------------------------------------------------
\* main
\* ------------------------------------------------------------------------

\* lines 167-183: the guard on an existing output, the clean-up under
\* --overwrite, and the cut to --max-recordings.  Whether the output
\* exists, and the arguments, are read here.
MainStart ==
  /\ pc = "start"
  /\ \E output_exists \in BOOLEAN, overwrite \in BOOLEAN,
        max_recordings \in (-1)..Len(standardized_files) :
       IF output_exists /\ ~overwrite
         THEN /\ pc' = "exit"
              /\ raised' = "SystemExit"
              /\ UNCHANGED standardized_files
         ELSE /\ pc' = "loop"
              /\ raised' = ""
              /\ standardized_files' =
                   IF max_recordings > -1
                     THEN SubSeq(standardized_files, 1, max_recordings)
                     ELSE standardized_files
  /\ UNCHANGED << file_idx, record, records, output_jsonl, fs, file_vars,
                  item_idx, image_counter, last_image_rel, trajectory,
                  writes, b64_arg >>

\* lines 186-187 and 117-129: the next file is handed to process_file,
\* which loads it and sets up the walk
ProcessFileBegin ==
  /\ pc = "loop"
  /\ file_idx <= Len(standardized_files)
  /\ LET file == standardized_files[file_idx]
         data == file.data
         id   == IF data.example_id = None \/ data.example_id = <<>>
                   THEN file.stem
                   ELSE data.example_id
         task == IF data.task_id = None THEN <<>> ELSE data.task_id
     IN  /\ content' = IF data.has_content THEN data.content ELSE <<>>
         /\ instruction' = resolve_instruction(content')
         /\ example_id' = id
         /\ task_id' = IF task = <<>> \/ ToLower(task) = <<"a","g","e","n","t","n","e","t">>
                         THEN id
                         ELSE task
         /\ image_folder' = sanitize_name(id)
  /\ image_counter' = 0
  /\ last_image_rel' = None
  /\ trajectory' = <<>>
  /\ item_idx' = 1
  /\ pc' = "walk"
  /\ UNCHANGED << raised, main_vars, fs, writes, b64_arg >>

\* rel_path.as_posix() of Path(image_folder) / f"{image_counter:04d}.png"
RelPath(folder, counter) ==
  folder \o <<"/">> \o Format04d(counter) \o <<".", "p", "n", "g">>

Walking ==
  /\ pc = "walk"
  /\ item_idx <= Len(content)

\* line 135: the item is an image observation
IsImage(item) == item.is_dict /\ item.class_ = "image_observation"

\* line 141: the item is not an image observation and holds "guiactions"
IsBatch(item) == item.is_dict /\ ~IsImage(item) /\ item.has_guiactions

\* the mutation that skips only the empty batch
SkipsEmptyOnly(last, guiactions) == guiactions = <<>>

\* line 142: the batch is passed over
SkipsBatch(last, guiactions) == last = None \/ guiactions = <<>>

\* the mutation that numbers the steps from 1
StepFromOne(steps, image, code) ==
  [index |-> Len(steps) + 1, image |-> image, value |-> [code |-> code]]

\* lines 146-150: the step appended to trajectory
Step(steps, image, code) ==
  [index |-> Len(steps), image |-> image, value |-> [code |-> code]]

\* lines 132-133
WalkNotADict ==
  /\ Walking
  /\ ~content[item_idx].is_dict
  /\ item_idx' = item_idx + 1
  /\ UNCHANGED << pc, raised, main_vars, fs, file_vars, image_counter,
                  last_image_rel, trajectory, writes, b64_arg >>

\* lines 135-140
WalkImage ==
  /\ Walking
  /\ IsImage(content[item_idx])
  /\ LET rel_path == RelPath(image_folder, image_counter)
         done     == decode_base64_to_file(content[item_idx].content,
                                           image_folder, rel_path, fs)
     IN  /\ fs' = done.fs
         /\ b64_arg' = done.b64_arg
         /\ writes' = IF done.opened THEN Append(writes, rel_path) ELSE writes
         /\ IF done.raised = ""
              THEN /\ last_image_rel' = rel_path
                   /\ image_counter' = image_counter + 1
                   /\ item_idx' = item_idx + 1
                   /\ UNCHANGED << pc, raised >>
              ELSE /\ pc' = "raised"
                   /\ raised' = done.raised
                   /\ UNCHANGED << last_image_rel, image_counter, item_idx >>
  /\ UNCHANGED << main_vars, file_vars, trajectory >>

\* lines 141-151
WalkActions ==
  /\ Walking
  /\ IsBatch(content[item_idx])
  /\ LET guiactions == content[item_idx].guiactions
         translated == actions_to_code(guiactions)
     IN  IF SkipsBatch(last_image_rel, guiactions)
           THEN /\ item_idx' = item_idx + 1
                /\ UNCHANGED << pc, raised, trajectory >>
         ELSE IF translated.raised # ""
           THEN /\ pc' = "raised"
                /\ raised' = translated.raised
                /\ UNCHANGED << item_idx, trajectory >>
         ELSE /\ trajectory' =
                   Append(trajectory,
                          Step(trajectory, last_image_rel, translated.code))
              /\ item_idx' = item_idx + 1
              /\ UNCHANGED << pc, raised >>
  /\ UNCHANGED << main_vars, fs, file_vars, image_counter, last_image_rel,
                  writes, b64_arg >>

\* a dict that is neither an image observation nor an action batch
WalkOther ==
  /\ Walking
  /\ content[item_idx].is_dict
  /\ ~IsImage(content[item_idx])
  /\ ~IsBatch(content[item_idx])
  /\ item_idx' = item_idx + 1
  /\ UNCHANGED << pc, raised, main_vars, fs, file_vars, image_counter,
                  last_image_rel, trajectory, writes, b64_arg >>

\* the mutation that returns the record whatever the trajectory holds
ReturnedAlways(data) ==
  [is_none |-> FALSE,
   task_id |-> task_id,
   instruction |-> instruction,
   traj |-> trajectory,
   source_recording_id |-> data.example_id,
   raw_type |-> data.type,
   image_folder |-> image_folder]

\* lines 153-163: what process_file returns
Returned(data) ==
  IF trajectory = <<>>
    THEN NoRecord
    ELSE [is_none |-> FALSE,
          task_id |-> task_id,
          instruction |-> instruction,
          traj |-> trajectory,
          source_recording_id |-> data.example_id,
          raw_type |-> data.type,
          image_folder |-> image_folder]

ProcessFileReturn ==
  /\ pc = "walk"
  /\ item_idx > Len(content)
  /\ record' = Returned(standardized_files[file_idx].data)
  /\ pc' = "returned"
  /\ UNCHANGED << raised, standardized_files, file_idx, records, output_jsonl,
                  fs, file_vars, item_idx, image_counter, last_image_rel,
                  trajectory, writes, b64_arg >>

\* lines 188-190
MainCollect ==
  /\ pc = "returned"
  /\ records' = IF record.is_none THEN records ELSE Append(records, record)
  /\ file_idx' = file_idx + 1
  /\ pc' = "loop"
  /\ UNCHANGED << raised, standardized_files, record, output_jsonl, fs,
                  file_vars, item_idx, image_counter, last_image_rel,
                  trajectory, writes, b64_arg >>

\* lines 192-194
WriteOutput ==
  /\ pc = "loop"
  /\ file_idx > Len(standardized_files)
  /\ output_jsonl' = [written |-> TRUE, lines |-> records]
  /\ pc' = "done"
  /\ UNCHANGED << raised, standardized_files, file_idx, record, records, fs,
                  file_vars, item_idx, image_counter, last_image_rel,
                  trajectory, writes, b64_arg >>

Next ==
  \/ MainStart
  \/ ProcessFileBegin
  \/ WalkNotADict
  \/ WalkImage
  \/ WalkActions
  \/ WalkOther
  \/ ProcessFileReturn
  \/ MainCollect
  \/ WriteOutput

Spec == Init /\ [][Next]_vars

\* ------------------------------------------------------------------------
\* The walk, read off the content array
\* ------------------------------------------------------------------------

\* the items the walk of the current file has passed
Walked == 1..(item_idx - 1)

ImagesBefore(k) == {j \in 1..(k - 1) : IsImage(content[j])}

\* a non-empty action batch with an image observation before it
Emitting(k) ==
  /\ IsBatch(content[k])
  /\ content[k].guiactions # <<>>
  /\ ImagesBefore(k) # {}

EmittingWalked == {k \in Walked : Emitting(k)}

\* the position of the batch behind the n-th step
NthEmitting(n) ==
  CHOOSE k \in EmittingWalked : Cardinality({j \in EmittingWalked : j <= k}) = n

\* the path of the last image observation before position k
FrameBefore(k) == RelPath(image_folder, Cardinality(ImagesBefore(k)) - 1)

\* C1: every step comes from a non-empty action batch that has an image
\* observation before it, one step per such batch in content order, and
\* its image is never None: it is the path, present on disk, of the last
\* image observation before that batch.
StepsReferencePrecedingImage ==
  /\ Len(trajectory) = Cardinality(EmittingWalked)
  /\ \A n \in DOMAIN trajectory :
       /\ trajectory[n].image # None
       /\ trajectory[n].image = FrameBefore(NthEmitting(n))
       /\ trajectory[n].image \in DOMAIN fs.files

\* an orphan batch, then two frames with a batch each: the second step
\* references the second frame
OrphanThenTwoFrames ==
  /\ pc = "returned"
  /\ Len(content) = 8
  /\ IsBatch(content[3])
  /\ content[3].guiactions # <<>>
  /\ Len(trajectory) = 2
  /\ trajectory[1].image = RelPath(image_folder, 0)
  /\ trajectory[2].image = RelPath(image_folder, 1)

\* C10, state part: each step's index is its position, counted from 0.
StepsIndexedByPosition ==
  \A n \in DOMAIN trajectory : trajectory[n].index = n - 1

\* the walk passes the item at item_idx
PassesItem ==
  /\ pc = "walk"
  /\ pc' = "walk"
  /\ item_idx <= Len(content)
  /\ item_idx' = item_idx + 1

\* C10, step part: passing an action batch that is empty or has no image
\* observation before it changes none of trajectory, last_image_rel and
\* image_counter; passing an image observation leaves trajectory as it is.
SkipsAndImagesKeepSteps ==
  PassesItem =>
    /\ ( /\ IsBatch(content[item_idx])
         /\ (content[item_idx].guiactions = <<>> \/ ImagesBefore(item_idx) = {}) )
       => UNCHANGED << trajectory, last_image_rel, image_counter >>
    /\ IsImage(content[item_idx]) => trajectory' = trajectory

\* C10: after any prefix of the walk the steps carry the indices 0..n-1 in
\* order; a skipped action batch takes no index and leaves trajectory,
\* last_image_rel and image_counter unchanged; an image observation leaves
\* trajectory unchanged.
StepIndicesAndFrames ==
  /\ []StepsIndexedByPosition
  /\ [][SkipsAndImagesKeepSteps]_vars

\* two steps, indices 0 and 1, around a skipped empty batch and after a
\* skipped orphan batch
TwoStepsAroundSkips ==
  /\ pc = "returned"
  /\ Len(content) = 8
  /\ IsBatch(content[3])
  /\ ~Emitting(3)
  /\ IsBatch(content[6])
  /\ content[6].guiactions = <<>>
  /\ Len(trajectory) = 2
  /\ trajectory[1].index = 0
  /\ trajectory[2].index = 1

\* ------------------------------------------------------------------------
\* The instruction
\* ------------------------------------------------------------------------

Eligible(k) ==
  /\ content[k].is_dict
  /\ content[k].class_ = "text_observation"
  /\ content[k].source \in InstructionSources

EligiblePositions == {k \in DOMAIN content : Eligible(k)}

FirstEligibleText ==
  IF EligiblePositions = {}
    THEN None
    ELSE content[CHOOSE k \in EligiblePositions :
                   \A j \in EligiblePositions : k <= j].content

\* C7: the instruction is the text of the first text observation from
\* user or task in content order, whatever eligible observations follow
\* it; the walk goes on past it, so a file that returns has had every
\* item passed, every image observation written and every emitting batch
\* turned into a step, and the record carries that instruction.
InstructionIsFirstEligibleText ==
  /\ instruction = FirstEligibleText
  /\ pc = "returned" =>
       /\ item_idx = Len(content) + 1
       /\ image_counter = Cardinality({k \in DOMAIN content : IsImage(content[k])})
       /\ Len(trajectory) = Cardinality({k \in DOMAIN content : Emitting(k)})
       /\ ~record.is_none => record.instruction = FirstEligibleText

\* two eligible text observations with different texts come first, and
\* the walk still made a step from what follows them
TwoEligibleTextsThenStep ==
  /\ pc = "returned"
  /\ Len(content) = 8
  /\ Eligible(1)
  /\ Eligible(2)
  /\ content[1].content # content[2].content
  /\ instruction = content[1].content
  /\ Len(trajectory) = 2
  /\ record.instruction = content[1].content

\* ------------------------------------------------------------------------
\* What process_file returns and what main writes
\* ------------------------------------------------------------------------

\* C2: process_file returns None exactly when the walk made no step, a
\* record it returns has a non-empty traj, so no record collected or
\* written has an empty traj; a document with no image observation (action
\* batches only) returns None.
NoneExactlyWhenNoSteps ==
  /\ pc = "returned" =>
       /\ record.is_none <=> trajectory = <<>>
       /\ ~record.is_none => record.traj = trajectory /\ record.traj # <<>>
       /\ (\A k \in DOMAIN content : ~IsImage(content[k])) => record.is_none
  /\ \A n \in DOMAIN records : ~records[n].is_none /\ records[n].traj # <<>>
  /\ \A n \in DOMAIN output_jsonl.lines :
       /\ ~output_jsonl.lines[n].is_none
       /\ output_jsonl.lines[n].traj # <<>>

\* two files were processed, the second one holding only an orphan action
\* batch, and one record was written
OrphanFileDropped ==
  /\ pc = "done"
  /\ Len(standardized_files) = 2
  /\ Len(content) = 1
  /\ IsBatch(content[1])
  /\ content[1].guiactions # <<>>
  /\ record.is_none
  /\ output_jsonl.written
  /\ Len(output_jsonl.lines) = 1

\* ------------------------------------------------------------------------
\* Unsupported actions
\* ------------------------------------------------------------------------

Supported(action) ==
  action.action_type \in GUIActionTypes \cup ComputerActionTypes

HasUnsupported(k) ==
  /\ IsBatch(content[k])
  /\ \E a \in DOMAIN content[k].guiactions : ~Supported(content[k].guiactions[a])

\* C6: translating a batch that holds a kind of neither vocabulary raises
\* and returns no text; in process_file the walk never passes such a batch
\* once it is translated (it is non-empty and follows an image
\* observation): the run ends there with the error, no step was appended
\* for the batch, no step holds a command of it, and nothing is returned
\* or written for the file.
UnsupportedActionFailsBatch ==
  /\ \A k \in DOMAIN content :
       HasUnsupported(k) =>
         /\ actions_to_code(content[k].guiactions).raised = "ValueError"
         /\ actions_to_code(content[k].guiactions).code = ""
         /\ Emitting(k) =>
              /\ item_idx <= k
              /\ pc \notin {"returned", "done"}
              /\ ~output_jsonl.written
              /\ Len(trajectory) = Cardinality({j \in 1..(k - 1) : Emitting(j)} \cap Walked)
              /\ (pc = "raised" /\ item_idx = k) =>
                   /\ raised = "ValueError"
                   /\ Len(records) < file_idx
  /\ \A n \in DOMAIN trajectory :
       trajectory[n].value.code =
         actions_to_code(content[NthEmitting(n)].guiactions).code

\* a step was made, then a batch with a supported kind before an unknown
\* one was translated and the run ended
UnsupportedAfterSupported ==
  /\ pc = "raised"
  /\ raised = "ValueError"
  /\ IsBatch(content[item_idx])
  /\ Len(content[item_idx].guiactions) = 2
  /\ Supported(content[item_idx].guiactions[1])
  /\ ~Supported(content[item_idx].guiactions[2])
  /\ Len(trajectory) = 1

\* ------------------------------------------------------------------------
\* The payload normalizer
\* ------------------------------------------------------------------------

\* the position of the image observation whose decoding is the last thing
\* the walk did (0 when there is none)
DecodedAt ==
  IF pc = "raised"
    THEN IF IsImage(content[item_idx]) THEN item_idx ELSE 0
    ELSE IF item_idx > 1 /\ IsImage(content[item_idx - 1])
           THEN item_idx - 1
           ELSE 0

\* how that decoding ended: the exception and the bytes of the frame
Outcome ==
  [raised |-> IF pc = "raised" THEN raised ELSE "",
   bytes  |-> IF pc = "raised" THEN <<>> ELSE fs.files[last_image_rel]]

\* the same for decode_base64_to_file on any string
NormalizeOutcome(raw) ==
  LET done == decode_base64_to_file(raw, <<>>, <<>>, EmptyFs)
  IN  [raised |-> done.raised,
       bytes  |-> IF done.raised = "" THEN done.fs.files[<<>>] ELSE <<>>]

HasComma(raw) == \E k \in DOMAIN raw : raw[k] = ","

AfterFirstComma(raw) ==
  SubSeq(raw, 1 + CHOOSE k \in DOMAIN raw :
                    raw[k] = "," /\ \A j \in 1..(k - 1) : raw[j] # ",",
         Len(raw))

\* the string the steps from line 68 on are applied to
Stripped(raw) ==
  IF StartsWith(raw, DataPrefix) THEN AfterFirstComma(raw) ELSE raw

Cleaned(raw) ==
  SelectSeq(raw, LAMBDA ch : ch \in Range(Base64Table) \cup {"="})

TrailingEquals(c) ==
  CHOOSE n \in 0..Len(c) :
    /\ \A j \in (Len(c) - n + 1)..Len(c) : c[j] = "="
    /\ n < Len(c) => c[Len(c) - n] # "="

ClaimedCore(c) ==
  LET core == SubSeq(c, 1, Len(c) - TrailingEquals(c))
  IN  IF Len(core) % 4 = 1 THEN SubSeq(core, 1, Len(core) - 1) ELSE core

ClaimedFinal(c) ==
  LET core == ClaimedCore(c)
      need == (4 - (Len(core) % 4)) % 4
      n    == IF TrailingEquals(c) >= need THEN TrailingEquals(c) ELSE need
  IN  core \o [k \in 1..n |-> "="]

\* C3: the string handed to b64decode is core' followed by n '=', where
\* core' is the cleaned string without its trailing '=' and without its
\* last character when that leaves a length of 1 mod 4, and n is the
\* larger of the trailing '=' of the cleaned string and the padding core'
\* needs; core' never has a length of 1 mod 4.
DecoderGetsTrimmedPaddedCore ==
  (DecodedAt # 0) =>
    LET raw == content[DecodedAt].content
    IN  IF StartsWith(raw, DataPrefix) /\ ~HasComma(raw)
          THEN b64_arg = None
          ELSE /\ b64_arg = ClaimedFinal(Cleaned(Stripped(raw)))
               /\ Len(ClaimedCore(Cleaned(Stripped(raw)))) % 4 # 1

\* "QQQQQ" was decoded as "QQQQ"
FiveCharCoreTrimmed ==
  /\ DecodedAt # 0
  /\ content[DecodedAt].content = <<"Q", "Q", "Q", "Q", "Q">>
  /\ b64_arg = <<"Q", "Q", "Q", "Q">>
  /\ Outcome = [raised |-> "", bytes |-> <<65, 4, 16>>]

CleanPadded(raw) ==
  /\ \A k \in DOMAIN raw : raw[k] \in Range(Base64Table) \cup {"="}
  /\ Len(raw) % 4 = 0
  /\ TrailingEquals(raw) <= 2

\* C4: a payload of base64-alphabet characters only, of a length that is a
\* multiple of 4 and with at most two trailing '=', reaches b64decode as
\* it is, and the frame holds the bytes b64decode gives for it (the error
\* of b64decode, when it rejects it).
CleanPaddedPayloadUntouched ==
  (DecodedAt # 0 /\ CleanPadded(content[DecodedAt].content)) =>
    LET raw == content[DecodedAt].content
    IN  /\ b64_arg = raw
        /\ Outcome = IF b64decode(raw).ok
                       THEN [raised |-> "", bytes |-> b64decode(raw).bytes]
                       ELSE [raised |-> "binascii.Error", bytes |-> <<>>]

\* "QQ==" was decoded
PaddedPayloadDecoded ==
  /\ DecodedAt # 0
  /\ content[DecodedAt].content = <<"Q", "Q", "=", "=">>
  /\ b64_arg = <<"Q", "Q", "=", "=">>
  /\ Outcome = [raised |-> "", bytes |-> <<65>>]

\* C5 as stated: for every payload p, the data-URI form of p decodes to
\* what p decodes to.
DataUriFormOfAnyPayloadAgrees ==
  (DecodedAt # 0) =>
    NormalizeOutcome(DataUriPrefix \o content[DecodedAt].content) = Outcome

\* C5, amended: for every payload p that does not itself start with
\* "data:", the data-URI form of p decodes to what p decodes to; of an
\* input that starts with "data:" only the text after the first comma is
\* kept, and the steps from line 68 on are applied to it.
DataUriFormAgrees ==
  (DecodedAt # 0) =>
    LET raw == content[DecodedAt].content
    IN  /\ ~StartsWith(raw, DataPrefix) =>
             NormalizeOutcome(DataUriPrefix \o raw) = Outcome
        /\ (StartsWith(raw, DataPrefix) /\ HasComma(raw)) =>
             b64_arg = FinalString(AfterFirstComma(raw))

\* the data-URI form of "Q,QQ" was decoded, as "QQQ="
DataUriDecoded ==
  /\ DecodedAt # 0
  /\ content[DecodedAt].content = DataUriPrefix \o <<"Q", ",", "Q", "Q">>
  /\ b64_arg = <<"Q", "Q", "Q", "=">>
  /\ Outcome = NormalizeOutcome(<<"Q", ",", "Q", "Q">>)

\* ------------------------------------------------------------------------
\* Failed frames and repeated writes
\* ------------------------------------------------------------------------

\* C8: when decoding an image observation fails, nothing is returned or
\* written for the file and no file is left at the path of that frame.
FailedFrameLeavesNoFile ==
  (pc = "raised" /\ IsImage(content[item_idx])) =>
    /\ ~output_jsonl.written
    /\ Len(records) < file_idx
    /\ RelPath(image_folder, image_counter) \notin DOMAIN fs.files

\* the files the walk of the current file has opened for writing
FileWrites ==
  image_counter +
    (IF pc = "raised" /\ raised = "binascii.Error" /\ IsImage(content[item_idx])
       THEN 1 ELSE 0)

\* the k-th image observation of a file (from 0) goes to
\* <sanitized example id>/<k as 4 digits>.png
FramesNamedByCount ==
  \A k \in 1..FileWrites :
    writes[Len(writes) - FileWrites + k] =
      sanitize_name(example_id) \o <<"/">> \o Format04d(k - 1)
        \o <<".", "p", "n", "g">>

\* C9: across a run every image write creates a path not written before
\* in that run: frames are named by their count within the file, and no
\* two files write into the same subdirectory.
EveryWriteCreates ==
  /\ FramesNamedByCount
  /\ \A a, b \in DOMAIN writes : a # b => writes[a] # writes[b]

====
